---- MODULE Spec2Model ----
(***************************************************************************)
(* Model of OCRComparisonApp (src/app.js): the text inputs, the two        *)
(* normalization options, the diff pipeline run by updateDiff, and the OCR *)
(* collaborator that writes textA.                                         *)
(*                                                                         *)
(* A string is a sequence of UTF-16 code units (naturals), which is what   *)
(* String.prototype.replace without the u flag and diff_match_patch work   *)
(* on.                                                                     *)
(***************************************************************************)
EXTENDS Integers, Sequences, FiniteSets, TLC

VARIABLES
    textA,              \* this.textA.value
    textB,              \* this.textB.value
    ignoreWhitespace,   \* this.ignoreWhitespace.checked
    ignoreSymbols,      \* this.ignoreSymbols.checked
    normA,              \* local textA of updateDiff when diff_main is called
    normB,              \* local textB of updateDiff when diff_main is called
    diffs,              \* local diffs of updateDiff after diff_cleanupSemantic
    diffOutput,         \* this.diffOutput.innerHTML
    worker,             \* this.worker: "null" or "worker"
    initPc,             \* the await initializeTesseract is suspended at, or how it ended
    currentImage,       \* this.currentImage: "null" or a file
    runOcrBtnDisabled,  \* this.runOcrBtn.disabled
    recognizing,        \* the runOCR calls suspended at await worker.recognize, oldest first
    reading,            \* the files whose FileReader (displayImage) has not loaded yet
    previewImg,         \* this.previewImg.src: "none" or the file it shows
    alerts              \* the messages showError displayed during the last handler

pipelineVars == <<textA, textB, ignoreWhitespace, ignoreSymbols, normA, normB, diffs, diffOutput>>
ocrVars == <<worker, initPc, currentImage, runOcrBtnDisabled, recognizing>>
vars == <<pipelineVars, ocrVars, reading, previewImg, alerts>>

----------------------------------------------------------------------------
(* Bounds *)

\* Longest text a user types or the recognizer returns in Spec.
MaxTextLen == 1

\* Longest text of SpecNormalize.
MaxNormLen == 3

\* Longest text of SpecDiff.
MaxDiffLen == 3

\* Most recognitions in flight at once.
MaxPending == 2

----------------------------------------------------------------------------
(* Strings *)

\* All sequences over S of length at most n.
RECURSIVE StringsUpTo(_, _)
StringsUpTo(S, n) ==
    IF n = 0 THEN {<<>>}
    ELSE LET shorter == StringsUpTo(S, n - 1)
         IN  shorter \cup {Append(s, c) : s \in {t \in shorter : Len(t) = n - 1}, c \in S}

\* s.substring(from, to) with 0-based from (inclusive) and to (exclusive).
substring(s, from, to) ==
    LET f == IF from < 0 THEN 0 ELSE IF from > Len(s) THEN Len(s) ELSE from
        t == IF to < 0 THEN 0 ELSE IF to > Len(s) THEN Len(s) ELSE to
        lo == IF f < t THEN f ELSE t
        hi == IF f < t THEN t ELSE f
    IN  SubSeq(s, lo + 1, hi)

----------------------------------------------------------------------------
(* Regular-expression character classes of updateDiff *)

\* \s of a JavaScript regular expression (code units).
IsWhiteSpace(c) ==
    \/ c \in {9, 10, 11, 12, 13, 32, 160, 5760, 8232, 8233, 8239, 8287, 12288, 65279}
    \/ (c >= 8192 /\ c <= 8202)

\* \w of a JavaScript regular expression without the i and u flags: [A-Za-z0-9_].
IsWordChar(c) ==
    \/ (c >= 65 /\ c <= 90)
    \/ (c >= 97 /\ c <= 122)
    \/ (c >= 48 /\ c <= 57)
    \/ c = 95

\* \u4e00-\u9fff
IsCJK(c) == c >= 19968 /\ c <= 40959

\* Length of the longest match of \s+ that starts at 1-based position i of s
\* (0 when there is none): + is greedy.
RECURSIVE MatchWhitespaceRun(_, _)
MatchWhitespaceRun(s, i) ==
    IF i > Len(s) \/ ~IsWhiteSpace(s[i]) THEN 0
    ELSE 1 + MatchWhitespaceRun(s, i + 1)

\* s.replace(/\s+/g, repl) scanning from 1-based position i.
RECURSIVE ReplaceWhitespaceFrom(_, _, _)
ReplaceWhitespaceFrom(s, i, repl) ==
    IF i > Len(s) THEN <<>>
    ELSE LET m == MatchWhitespaceRun(s, i)
         IN  IF m > 0 THEN repl \o ReplaceWhitespaceFrom(s, i + m, repl)
             ELSE <<s[i]>> \o ReplaceWhitespaceFrom(s, i + 1, repl)

\* s.replace(/\s+/g, ' '): runs folded to one space instead of deleted.
RemoveWhitespaceSingleSpace(s) == ReplaceWhitespaceFrom(s, 1, <<32>>)

\* textA.replace(/\s+/g, '')
RemoveWhitespace(s) == ReplaceWhitespaceFrom(s, 1, <<>>)

\* s.replace(/[^\w\u4e00-\u9fff]/g, '') scanning from 1-based position i: the
\* negated class matches one code unit.
RECURSIVE ReplaceSymbolsFrom(_, _)
ReplaceSymbolsFrom(s, i) ==
    IF i > Len(s) THEN <<>>
    ELSE IF ~(IsWordChar(s[i]) \/ IsCJK(s[i])) THEN ReplaceSymbolsFrom(s, i + 1)
    ELSE <<s[i]>> \o ReplaceSymbolsFrom(s, i + 1)

\* s.replace(/[^\w]/g, ''): the class without the range \u4e00-\u9fff.
RemoveSymbolsNoCJK(s) == SelectSeq(s, IsWordChar)

\* s.replace(/[^\w\u4e00-\u9fff]/, ''): without the g flag only the first
\* match is replaced.
RemoveSymbolsFirstOnly(s) ==
    LET hits == {i \in 1..Len(s) : ~(IsWordChar(s[i]) \/ IsCJK(s[i]))}
    IN  IF hits = {} THEN s
        ELSE LET i == CHOOSE i \in hits : \A j \in hits : i <= j
             IN  SubSeq(s, 1, i - 1) \o SubSeq(s, i + 1, Len(s))

\* textA.replace(/[^\w\u4e00-\u9fff]/g, '')
RemoveSymbols(s) == ReplaceSymbolsFrom(s, 1)

\* Lines 156-163 of updateDiff applied to one text.
normalize(t, ws, sym) ==
    LET t1 == IF ws THEN RemoveWhitespace(t) ELSE t
    IN  IF sym THEN RemoveSymbols(t1) ELSE t1

----------------------------------------------------------------------------
(* diff_match_patch: the differ imported by line 2 and held in this.dmp.    *)
(* A diff is a sequence of [op, text] records in the order of the texts.    *)

DIFF_DELETE == -1
DIFF_INSERT == 1
DIFF_EQUAL == 0

Diff(op, text) == [op |-> op, text |-> text]

Max(a, b) == IF a > b THEN a ELSE b

\* Number of code units common to the start of text1 and text2.
RECURSIVE diff_commonPrefix(_, _)
diff_commonPrefix(text1, text2) ==
    IF text1 = <<>> \/ text2 = <<>> \/ Head(text1) # Head(text2) THEN 0
    ELSE 1 + diff_commonPrefix(Tail(text1), Tail(text2))

\* Number of code units common to the end of text1 and text2.
RECURSIVE diff_commonSuffix(_, _)
diff_commonSuffix(text1, text2) ==
    IF text1 = <<>> \/ text2 = <<>> \/ text1[Len(text1)] # text2[Len(text2)] THEN 0
    ELSE 1 + diff_commonSuffix(SubSeq(text1, 1, Len(text1) - 1),
                               SubSeq(text2, 1, Len(text2) - 1))

\* Length of the longest suffix of text1 that is a prefix of text2.
diff_commonOverlap_(text1, text2) ==
    LET n == IF Len(text1) < Len(text2) THEN Len(text1) ELSE Len(text2)
        fits == {k \in 0..n : substring(text1, Len(text1) - k, Len(text1)) = substring(text2, 0, k)}
    IN  CHOOSE k \in fits : \A j \in fits : j <= k

\* haystack.indexOf(needle, from): 0-based, -1 when absent.
indexOf(haystack, needle, from) ==
    LET start == IF from < 0 THEN 0 ELSE from
        hits == {i \in start..(Len(haystack) - Len(needle)) :
                    substring(haystack, i, i + Len(needle)) = needle}
    IN  IF hits = {} THEN -1 ELSE CHOOSE i \in hits : \A j \in hits : i <= j

RECURSIVE diff_halfMatchLoop_(_, _, _, _, _, _)

\* The body of the while loop of diff_halfMatchI_, j being the index at which
\* shorttext.indexOf(seed, j + 1) found the seed (-1 ends the loop). best is
\* <<longtext_a, longtext_b, shorttext_a, shorttext_b, common>>.
diff_halfMatchAt_(longtext, shorttext, i, seed, j, best) ==
    IF j = -1 THEN best
    ELSE LET prefixLength == diff_commonPrefix(substring(longtext, i, Len(longtext)),
                                               substring(shorttext, j, Len(shorttext)))
             suffixLength == diff_commonSuffix(substring(longtext, 0, i),
                                               substring(shorttext, 0, j))
         IN  diff_halfMatchLoop_(longtext, shorttext, i, seed, j,
                 IF Len(best[5]) < suffixLength + prefixLength
                 THEN << substring(longtext, 0, i - suffixLength),
                         substring(longtext, i + prefixLength, Len(longtext)),
                         substring(shorttext, 0, j - suffixLength),
                         substring(shorttext, j + prefixLength, Len(shorttext)),
                         substring(shorttext, j - suffixLength, j)
                           \o substring(shorttext, j, j + prefixLength) >>
                 ELSE best)

\* The while loop of diff_halfMatchI_ from the match at j0 on: the best common
\* middle around the quarter of longtext that starts at i.
diff_halfMatchLoop_(longtext, shorttext, i, seed, j0, best) ==
    diff_halfMatchAt_(longtext, shorttext, i, seed, indexOf(shorttext, seed, j0 + 1), best)

\* The end of diff_halfMatchI_: the match when its common middle is at least
\* half of longtext, <<>> for null otherwise.
diff_halfMatchCommon_(longtext, best) ==
    IF Len(best[5]) * 2 >= Len(longtext) THEN best ELSE <<>>

\* One call of diff_halfMatchI_.
diff_halfMatchI_(longtext, shorttext, i) ==
    diff_halfMatchCommon_(longtext,
        diff_halfMatchLoop_(longtext, shorttext, i,
                            substring(longtext, i, i + (Len(longtext) \div 4)), -1,
                            << <<>>, <<>>, <<>>, <<>>, <<>> >>))

\* The choice diff_halfMatch_ makes between the two half-matches: the one
\* with the longer common middle, hm2 when they tie.
diff_halfMatchBetter_(hm1, hm2) ==
    IF hm1 = <<>> /\ hm2 = <<>> THEN <<>>
    ELSE IF hm2 = <<>> THEN hm1
    ELSE IF hm1 = <<>> THEN hm2
    ELSE IF Len(hm1[5]) > Len(hm2[5]) THEN hm1 ELSE hm2

\* The end of diff_halfMatch_: the half-match in the order of text1 and text2.
diff_halfMatchResult_(swap, hm) ==
    IF hm = <<>> THEN <<>>
    ELSE IF swap THEN <<hm[3], hm[4], hm[1], hm[2], hm[5]>>
    ELSE hm

\* <<text1_a, text1_b, text2_a, text2_b, mid_common>>, or <<>> for null.
diff_halfMatch_(text1, text2) ==
    LET swap == ~(Len(text1) > Len(text2))
        longtext == IF swap THEN text2 ELSE text1
        shorttext == IF swap THEN text1 ELSE text2
    IN  IF Len(longtext) < 4 \/ Len(shorttext) * 2 < Len(longtext) THEN <<>>
        ELSE diff_halfMatchResult_(swap,
                 diff_halfMatchBetter_(
                     \* First check if the second quarter is the seed for a half-match.
                     diff_halfMatchI_(longtext, shorttext, (Len(longtext) + 3) \div 4),
                     \* Check again based on the third quarter.
                     diff_halfMatchI_(longtext, shorttext, (Len(longtext) + 1) \div 2)))

\* diffs.splice(start, deleteCount, ...items) with a 0-based start.
splice(ds, start, deleteCount, items) ==
    SubSeq(ds, 1, start) \o items \o SubSeq(ds, start + deleteCount + 1, Len(ds))

\* First pass of diff_cleanupMerge: the while loop over the diffs with the
\* dummy equality appended. st holds the loop's variables.
RECURSIVE diff_cleanupMergeScan_(_)
diff_cleanupMergeScan_(st) ==
    IF st.pointer >= Len(st.diffs) THEN st.diffs
    ELSE
      LET cur == st.diffs[st.pointer + 1]
          n == st.count_delete + st.count_insert
          reset(ds, p) == [diffs |-> ds, pointer |-> p, count_delete |-> 0,
                           count_insert |-> 0, text_delete |-> <<>>, text_insert |-> <<>>]
      IN
      IF cur.op = DIFF_INSERT THEN
          diff_cleanupMergeScan_([st EXCEPT !.count_insert = @ + 1,
                                            !.text_insert = @ \o cur.text,
                                            !.pointer = @ + 1])
      ELSE IF cur.op = DIFF_DELETE THEN
          diff_cleanupMergeScan_([st EXCEPT !.count_delete = @ + 1,
                                            !.text_delete = @ \o cur.text,
                                            !.pointer = @ + 1])
      ELSE IF n > 1 THEN
          LET both == st.count_delete # 0 /\ st.count_insert # 0
              \* Factor out any common prefix.
              cl1 == IF both THEN diff_commonPrefix(st.text_insert, st.text_delete) ELSE 0
              prevIsEqual == (st.pointer - n) > 0
                             /\ st.diffs[st.pointer - n].op = DIFF_EQUAL
              prefix == substring(st.text_insert, 0, cl1)
              dA == IF cl1 = 0 THEN st.diffs
                    ELSE IF prevIsEqual
                    THEN [st.diffs EXCEPT ![st.pointer - n].text = @ \o prefix]
                    ELSE <<Diff(DIFF_EQUAL, prefix)>> \o st.diffs
              pA == IF cl1 # 0 /\ ~prevIsEqual THEN st.pointer + 1 ELSE st.pointer
              tiA == substring(st.text_insert, cl1, Len(st.text_insert))
              tdA == substring(st.text_delete, cl1, Len(st.text_delete))
              \* Factor out any common suffix.
              cl2 == IF both THEN diff_commonSuffix(tiA, tdA) ELSE 0
              dB == IF cl2 = 0 THEN dA
                    ELSE [dA EXCEPT ![pA + 1].text =
                                         substring(tiA, Len(tiA) - cl2, Len(tiA)) \o @]
              tiB == substring(tiA, 0, Len(tiA) - cl2)
              tdB == substring(tdA, 0, Len(tdA) - cl2)
              \* Delete the offending records and add the merged ones.
              p0 == pA - n
              merged == (IF tdB # <<>> THEN <<Diff(DIFF_DELETE, tdB)>> ELSE <<>>)
                        \o (IF tiB # <<>> THEN <<Diff(DIFF_INSERT, tiB)>> ELSE <<>>)
          IN  diff_cleanupMergeScan_(reset(splice(dB, p0, n, merged), p0 + Len(merged) + 1))
      ELSE IF st.pointer # 0 /\ st.diffs[st.pointer].op = DIFF_EQUAL THEN
          \* Merge this equality with the previous one.
          diff_cleanupMergeScan_(
              reset(splice([st.diffs EXCEPT ![st.pointer].text = @ \o cur.text],
                           st.pointer, 1, <<>>),
                    st.pointer))
      ELSE diff_cleanupMergeScan_(reset(st.diffs, st.pointer + 1))

\* Second pass of diff_cleanupMerge: single edits surrounded by equalities are
\* shifted sideways to eliminate an equality. Returns <<diffs, changes>>.
RECURSIVE diff_cleanupMergeShift_(_, _, _)
diff_cleanupMergeShift_(ds, pointer, changes) ==
    IF ~(pointer < Len(ds) - 1) THEN <<ds, changes>>
    ELSE
      LET prev == ds[pointer]
          cur == ds[pointer + 1]
          next == ds[pointer + 2]
      IN
      IF prev.op = DIFF_EQUAL /\ next.op = DIFF_EQUAL THEN
          IF substring(cur.text, Len(cur.text) - Len(prev.text), Len(cur.text)) = prev.text
          THEN \* Shift the edit over the previous equality.
               LET d1 == [ds EXCEPT
                            ![pointer + 1].text =
                                prev.text \o substring(cur.text, 0, Len(cur.text) - Len(prev.text)),
                            ![pointer + 2].text = prev.text \o next.text]
               IN  diff_cleanupMergeShift_(splice(d1, pointer - 1, 1, <<>>), pointer + 1, TRUE)
          ELSE IF substring(cur.text, 0, Len(next.text)) = next.text
          THEN \* Shift the edit over the next equality.
               LET d1 == [ds EXCEPT
                            ![pointer].text = prev.text \o next.text,
                            ![pointer + 1].text =
                                substring(cur.text, Len(next.text), Len(cur.text)) \o next.text]
               IN  diff_cleanupMergeShift_(splice(d1, pointer + 1, 1, <<>>), pointer + 1, TRUE)
          ELSE diff_cleanupMergeShift_(ds, pointer + 1, changes)
      ELSE diff_cleanupMergeShift_(ds, pointer + 1, changes)

RECURSIVE diff_cleanupMerge(_)

\* if (diffs[diffs.length - 1][1] === '') diffs.pop(): remove the dummy entry
\* at the end.
diff_cleanupMergePop_(scanned) ==
    IF scanned[Len(scanned)].text = <<>>
    THEN SubSeq(scanned, 1, Len(scanned) - 1) ELSE scanned

\* if (changes) this.diff_cleanupMerge(diffs): if shifts were made, the diff
\* needs reordering and another shift sweep. shifted is <<diffs, changes>>.
diff_cleanupMergeAgain_(shifted) ==
    IF shifted[2] THEN diff_cleanupMerge(shifted[1]) ELSE shifted[1]

\* Reorder and merge like edit sections; merge equalities.
diff_cleanupMerge(ds) ==
    diff_cleanupMergeAgain_(
        diff_cleanupMergeShift_(
            diff_cleanupMergePop_(
                diff_cleanupMergeScan_(
                    \* Add a dummy entry at the end.
                    [diffs |-> Append(ds, Diff(DIFF_EQUAL, <<>>)), pointer |-> 0,
                     count_delete |-> 0, count_insert |-> 0,
                     text_delete |-> <<>>, text_insert |-> <<>>])),
            1, FALSE))

\* s.charAt(i) with a 0-based i; -1 stands for the empty string charAt gives
\* outside the string.
charAt(s, i) == IF i >= 0 /\ i < Len(s) THEN s[i + 1] ELSE -1

\* The while loop of the front path: how far the diagonal runs from (x, y).
RECURSIVE diff_bisectSnake_(_, _, _, _)
diff_bisectSnake_(text1, text2, x, y) ==
    IF x < Len(text1) /\ y < Len(text2) /\ charAt(text1, x) = charAt(text2, y)
    THEN 1 + diff_bisectSnake_(text1, text2, x + 1, y + 1)
    ELSE 0

\* The while loop of the reverse path.
RECURSIVE diff_bisectSnakeBack_(_, _, _, _)
diff_bisectSnakeBack_(text1, text2, x, y) ==
    IF x < Len(text1) /\ y < Len(text2)
       /\ charAt(text1, Len(text1) - x - 1) = charAt(text2, Len(text2) - y - 1)
    THEN 1 + diff_bisectSnakeBack_(text1, text2, x + 1, y + 1)
    ELSE 0

\* for (k1 = -d + k1start; k1 <= d - k1end; k1 += 2): walk the front path one
\* step. st holds v1, v2, k1start, k1end, k2start, k2end. The result says
\* whether the paths overlap (and where), or gives the variables after the loop.
RECURSIVE diff_bisectFront_(_, _, _, _, _)
diff_bisectFront_(text1, text2, d, k1, st) ==
    LET text1_length == Len(text1)
        text2_length == Len(text2)
        max_d == (text1_length + text2_length + 1) \div 2
        v_offset == max_d
        v_length == 2 * max_d
        delta == text1_length - text2_length
        front == (delta % 2 # 0)
    IN
    IF ~(k1 <= d - st.k1end) THEN [found |-> FALSE, st |-> st]
    ELSE
      LET k1_offset == v_offset + k1
          x0 == IF k1 = -d \/ (k1 # d /\ st.v1[k1_offset - 1] < st.v1[k1_offset + 1])
                THEN st.v1[k1_offset + 1]
                ELSE st.v1[k1_offset - 1] + 1
          x1 == x0 + diff_bisectSnake_(text1, text2, x0, x0 - k1)
          y1 == x1 - k1
          st1 == [st EXCEPT !.v1[k1_offset] = x1]
          k2_offset == v_offset + delta - k1
      IN
      IF x1 > text1_length THEN
          diff_bisectFront_(text1, text2, d, k1 + 2, [st1 EXCEPT !.k1end = @ + 2])
      ELSE IF y1 > text2_length THEN
          diff_bisectFront_(text1, text2, d, k1 + 2, [st1 EXCEPT !.k1start = @ + 2])
      ELSE IF front /\ k2_offset >= 0 /\ k2_offset < v_length /\ st1.v2[k2_offset] # -1
              /\ x1 >= text1_length - st1.v2[k2_offset] THEN
          [found |-> TRUE, x |-> x1, y |-> y1]
      ELSE diff_bisectFront_(text1, text2, d, k1 + 2, st1)

\* for (k2 = -d + k2start; k2 <= d - k2end; k2 += 2): walk the reverse path one
\* step.
RECURSIVE diff_bisectReverse_(_, _, _, _, _)
diff_bisectReverse_(text1, text2, d, k2, st) ==
    LET text1_length == Len(text1)
        text2_length == Len(text2)
        max_d == (text1_length + text2_length + 1) \div 2
        v_offset == max_d
        v_length == 2 * max_d
        delta == text1_length - text2_length
        front == (delta % 2 # 0)
    IN
    IF ~(k2 <= d - st.k2end) THEN [found |-> FALSE, st |-> st]
    ELSE
      LET k2_offset == v_offset + k2
          x0 == IF k2 = -d \/ (k2 # d /\ st.v2[k2_offset - 1] < st.v2[k2_offset + 1])
                THEN st.v2[k2_offset + 1]
                ELSE st.v2[k2_offset - 1] + 1
          x2 == x0 + diff_bisectSnakeBack_(text1, text2, x0, x0 - k2)
          y2 == x2 - k2
          st1 == [st EXCEPT !.v2[k2_offset] = x2]
          k1_offset == v_offset + delta - k2
      IN
      IF x2 > text1_length THEN
          diff_bisectReverse_(text1, text2, d, k2 + 2, [st1 EXCEPT !.k2end = @ + 2])
      ELSE IF y2 > text2_length THEN
          diff_bisectReverse_(text1, text2, d, k2 + 2, [st1 EXCEPT !.k2start = @ + 2])
      ELSE IF ~front /\ k1_offset >= 0 /\ k1_offset < v_length /\ st1.v1[k1_offset] # -1
              /\ st1.v1[k1_offset] >= text1_length - x2 THEN
          [found |-> TRUE, x |-> st1.v1[k1_offset],
           y |-> v_offset + st1.v1[k1_offset] - k1_offset]
      ELSE diff_bisectReverse_(text1, text2, d, k2 + 2, st1)

RECURSIVE diff_bisectLoop_(_, _, _, _)

\* The rest of one round of the loop over d, r being what the reverse path
\* gave.
diff_bisectAfterReverse_(text1, text2, d, r) ==
    IF r.found THEN r
    ELSE diff_bisectLoop_(text1, text2, d + 1, r.st)

\* The rest of one round of the loop over d, f being what the front path gave.
diff_bisectAfterFront_(text1, text2, d, f) ==
    IF f.found THEN f
    ELSE diff_bisectAfterReverse_(text1, text2, d,
             diff_bisectReverse_(text1, text2, d, -d + f.st.k2start, f.st))

\* for (d = 0; d < max_d; d++): the 'middle snake', or found = FALSE when the
\* number of diffs equals the number of characters.
diff_bisectLoop_(text1, text2, d, st) ==
    IF ~(d < (Len(text1) + Len(text2) + 1) \div 2) THEN [found |-> FALSE, st |-> st]
    ELSE diff_bisectAfterFront_(text1, text2, d,
                                diff_bisectFront_(text1, text2, d, -d + st.k1start, st))

diff_bisectMiddle_(text1, text2) ==
    LET max_d == (Len(text1) + Len(text2) + 1) \div 2
        v_offset == max_d
        v_length == 2 * max_d
        v == [x \in 0..v_length |-> IF x = v_offset + 1 THEN 0 ELSE -1]
    IN  diff_bisectLoop_(text1, text2, 0,
                         [v1 |-> v, v2 |-> v, k1start |-> 0, k1end |-> 0,
                          k2start |-> 0, k2end |-> 0])

RECURSIVE diff_main(_, _)

\* The end of diff_bisect_, m being the middle snake: diff_bisectSplit_ at
\* (m.x, m.y) when the paths overlapped, a delete and an insert otherwise.
diff_bisectSplit_(text1, text2, m) ==
    IF m.found THEN
        diff_main(substring(text1, 0, m.x), substring(text2, 0, m.y))
          \o diff_main(substring(text1, m.x, Len(text1)),
                       substring(text2, m.y, Len(text2)))
    ELSE << Diff(DIFF_DELETE, text1), Diff(DIFF_INSERT, text2) >>

\* The end of diff_compute_, hm being what diff_halfMatch_ gave: the two
\* halves diffed separately when there is a half-match, diff_bisect_ otherwise.
diff_computeHalfMatch_(text1, text2, hm) ==
    IF hm # <<>> THEN
        diff_main(hm[1], hm[3])
          \o <<Diff(DIFF_EQUAL, hm[5])>>
          \o diff_main(hm[2], hm[4])
    ELSE diff_bisectSplit_(text1, text2, diff_bisectMiddle_(text1, text2))

\* Find the differences between two texts, assuming they share no common
\* prefix or suffix. (diff_lineMode_ needs both texts longer than 100 code
\* units and is not reached by the texts modelled here.)
RECURSIVE diff_compute_(_, _)
diff_compute_(text1, text2) ==
    IF text1 = <<>> THEN <<Diff(DIFF_INSERT, text2)>>
    ELSE IF text2 = <<>> THEN <<Diff(DIFF_DELETE, text1)>>
    ELSE
      LET longer == Len(text1) > Len(text2)
          longtext == IF longer THEN text1 ELSE text2
          shorttext == IF longer THEN text2 ELSE text1
          i == indexOf(longtext, shorttext, 0)
          op == IF longer THEN DIFF_DELETE ELSE DIFF_INSERT
      IN
      IF i # -1 THEN
          \* Shorter text is inside the longer text.
          << Diff(op, substring(longtext, 0, i)),
             Diff(DIFF_EQUAL, shorttext),
             Diff(op, substring(longtext, i + Len(shorttext), Len(longtext))) >>
      ELSE IF Len(shorttext) = 1 THEN
          \* Single character string.
          << Diff(DIFF_DELETE, text1), Diff(DIFF_INSERT, text2) >>
      ELSE diff_computeHalfMatch_(text1, text2, diff_halfMatch_(text1, text2))

\* The end of diff_main: restore the prefix and suffix around the diff of the
\* middle block, and merge.
diff_mainRestore_(commonprefix, commonsuffix, computed) ==
    diff_cleanupMerge(
        (IF commonprefix # <<>> THEN <<Diff(DIFF_EQUAL, commonprefix)>> ELSE <<>>)
          \o computed
          \o (IF commonsuffix # <<>> THEN <<Diff(DIFF_EQUAL, commonsuffix)>> ELSE <<>>))

\* Find the differences between two texts.
diff_main(text1, text2) ==
    IF text1 = text2 THEN
        IF text1 # <<>> THEN <<Diff(DIFF_EQUAL, text1)>> ELSE <<>>
    ELSE
      LET \* Trim off common prefix.
          prefixlength == diff_commonPrefix(text1, text2)
          t1 == substring(text1, prefixlength, Len(text1))
          t2 == substring(text2, prefixlength, Len(text2))
          \* Trim off common suffix.
          suffixlength == diff_commonSuffix(t1, t2)
      IN  diff_mainRestore_(substring(text1, 0, prefixlength),
                            substring(t1, Len(t1) - suffixlength, Len(t1)),
                            \* Compute the diff on the middle block.
                            diff_compute_(substring(t1, 0, Len(t1) - suffixlength),
                                          substring(t2, 0, Len(t2) - suffixlength)))

\* Given two strings, a score for how well the boundary between them falls on
\* a logical boundary: 6 (best) to 0 (worst).
diff_cleanupSemanticScore_(one, two) ==
    IF one = <<>> \/ two = <<>> THEN 6  \* Edges are the best.
    ELSE
      LET char1 == one[Len(one)]
          char2 == two[1]
          alnum(c) == (c >= 97 /\ c <= 122) \/ (c >= 65 /\ c <= 90) \/ (c >= 48 /\ c <= 57)
          nonAlphaNumeric1 == ~alnum(char1)
          nonAlphaNumeric2 == ~alnum(char2)
          whitespace1 == nonAlphaNumeric1 /\ IsWhiteSpace(char1)
          whitespace2 == nonAlphaNumeric2 /\ IsWhiteSpace(char2)
          lineBreak1 == whitespace1 /\ char1 \in {13, 10}
          lineBreak2 == whitespace2 /\ char2 \in {13, 10}
          \* /\n\r?\n$/
          blankLine1 == lineBreak1
                        /\ \/ substring(one, Len(one) - 2, Len(one)) = <<10, 10>>
                           \/ substring(one, Len(one) - 3, Len(one)) = <<10, 13, 10>>
          \* /^\r?\n\r?\n/
          blankLine2 == lineBreak2
                        /\ \/ substring(two, 0, 2) = <<10, 10>>
                           \/ substring(two, 0, 3) = <<13, 10, 10>>
                           \/ substring(two, 0, 3) = <<10, 13, 10>>
                           \/ substring(two, 0, 4) = <<13, 10, 13, 10>>
      IN  IF blankLine1 \/ blankLine2 THEN 5
          ELSE IF lineBreak1 \/ lineBreak2 THEN 4
          ELSE IF nonAlphaNumeric1 /\ ~whitespace1 /\ whitespace2 THEN 3
          ELSE IF whitespace1 \/ whitespace2 THEN 2
          ELSE IF nonAlphaNumeric1 \/ nonAlphaNumeric2 THEN 1
          ELSE 0

\* The inner while loop of diff_cleanupSemanticLossless: step character by
\* character right, looking for the best fit. cur and best are
\* <<equality1, edit, equality2>>.
RECURSIVE diff_cleanupSemanticLosslessStep_(_, _, _)
diff_cleanupSemanticLosslessStep_(cur, best, bestScore) ==
    IF charAt(cur[2], 0) # charAt(cur[3], 0) THEN best
    ELSE
      LET equality1 == Append(cur[1], cur[2][1])
          edit == Tail(cur[2]) \o <<cur[3][1]>>
          equality2 == Tail(cur[3])
          score == diff_cleanupSemanticScore_(equality1, edit)
                   + diff_cleanupSemanticScore_(edit, equality2)
          nxt == <<equality1, edit, equality2>>
      IN  \* The >= encourages trailing rather than leading whitespace on edits.
          IF score >= bestScore
          THEN diff_cleanupSemanticLosslessStep_(nxt, nxt, score)
          ELSE diff_cleanupSemanticLosslessStep_(nxt, best, bestScore)

RECURSIVE diff_cleanupSemanticLosslessFrom_(_, _)

\* if (diffs[pointer - 1][1] != bestEquality1): save an improvement back to
\* the diff, and go on. best is <<bestEquality1, bestEdit, bestEquality2>>.
diff_cleanupSemanticLosslessSave_(ds, pointer, best) ==
    IF ds[pointer].text # best[1] THEN
        \* We have an improvement, save it back to the diff.
        LET dA == IF best[1] # <<>>
                  THEN [ds EXCEPT ![pointer].text = best[1]]
                  ELSE splice(ds, pointer - 1, 1, <<>>)
            pA == IF best[1] # <<>> THEN pointer ELSE pointer - 1
            dB == [dA EXCEPT ![pA + 1].text = best[2]]
            dC == IF best[3] # <<>>
                  THEN [dB EXCEPT ![pA + 2].text = best[3]]
                  ELSE splice(dB, pA + 1, 1, <<>>)
            pC == IF best[3] # <<>> THEN pA ELSE pA - 1
        IN  diff_cleanupSemanticLosslessFrom_(dC, pC + 1)
    ELSE diff_cleanupSemanticLosslessFrom_(ds, pointer + 1)

\* Look for single edits surrounded on both sides by equalities which can be
\* shifted sideways to align the edit to a word boundary.
diff_cleanupSemanticLosslessFrom_(ds, pointer) ==
    IF ~(pointer < Len(ds) - 1) THEN ds
    ELSE IF ds[pointer].op = DIFF_EQUAL /\ ds[pointer + 2].op = DIFF_EQUAL THEN
      \* This is a single edit surrounded by equalities.
      LET eq1 == ds[pointer].text
          ed == ds[pointer + 1].text
          eq2 == ds[pointer + 2].text
          \* First, shift the edit as far left as possible.
          commonOffset == diff_commonSuffix(eq1, ed)
          commonString == substring(ed, Len(ed) - commonOffset, Len(ed))
          equality1 == substring(eq1, 0, Len(eq1) - commonOffset)
          edit == commonString \o substring(ed, 0, Len(ed) - commonOffset)
          equality2 == commonString \o eq2
      IN  \* Second, step character by character right, looking for the best fit.
          diff_cleanupSemanticLosslessSave_(ds, pointer,
              diff_cleanupSemanticLosslessStep_(
                  <<equality1, edit, equality2>>, <<equality1, edit, equality2>>,
                  diff_cleanupSemanticScore_(equality1, edit)
                    + diff_cleanupSemanticScore_(edit, equality2)))
    ELSE diff_cleanupSemanticLosslessFrom_(ds, pointer + 1)

diff_cleanupSemanticLossless(ds) == diff_cleanupSemanticLosslessFrom_(ds, 1)

\* The first while loop of diff_cleanupSemantic: eliminate an equality that is
\* smaller or equal to the edits on both sides of it. st holds the loop's
\* variables; lastEquality is <<>> for null (the loop tests it for truth, and
\* the empty string is false as well); equalities is the array used as a stack,
\* a function from the indices written so far. Returns <<diffs, changes>>.
RECURSIVE diff_cleanupSemanticScan_(_)
diff_cleanupSemanticScan_(st) ==
    IF ~(st.pointer < Len(st.diffs)) THEN <<st.diffs, st.changes>>
    ELSE
      LET cur == st.diffs[st.pointer + 1]
      IN
      IF cur.op = DIFF_EQUAL THEN
          diff_cleanupSemanticScan_(
              [st EXCEPT !.equalities = [i \in (DOMAIN st.equalities) \cup {st.equalitiesLength}
                                           |-> IF i = st.equalitiesLength THEN st.pointer
                                               ELSE st.equalities[i]],
                         !.equalitiesLength = @ + 1,
                         !.length_insertions1 = st.length_insertions2,
                         !.length_deletions1 = st.length_deletions2,
                         !.length_insertions2 = 0,
                         !.length_deletions2 = 0,
                         !.lastEquality = cur.text,
                         !.pointer = @ + 1])
      ELSE
        LET li2 == IF cur.op = DIFF_INSERT
                   THEN st.length_insertions2 + Len(cur.text) ELSE st.length_insertions2
            ld2 == IF cur.op = DIFF_INSERT
                   THEN st.length_deletions2 ELSE st.length_deletions2 + Len(cur.text)
        IN
        IF st.lastEquality # <<>>
           /\ Len(st.lastEquality) <= Max(st.length_insertions1, st.length_deletions1)
           /\ Len(st.lastEquality) <= Max(li2, ld2)
        THEN
          LET at == st.equalities[st.equalitiesLength - 1]
              \* Duplicate record, and change the second copy to insert.
              d1 == splice(st.diffs, at, 0, <<Diff(DIFF_DELETE, st.lastEquality)>>)
              d2 == [d1 EXCEPT ![at + 2].op = DIFF_INSERT]
              \* Throw away the equality just deleted and the previous one.
              len == st.equalitiesLength - 2
              back == IF len > 0 THEN st.equalities[len - 1] ELSE -1
          IN  diff_cleanupSemanticScan_(
                  [st EXCEPT !.diffs = d2,
                             !.equalitiesLength = len,
                             !.pointer = back + 1,
                             !.length_insertions1 = 0,
                             !.length_deletions1 = 0,
                             !.length_insertions2 = 0,
                             !.length_deletions2 = 0,
                             !.lastEquality = <<>>,
                             !.changes = TRUE])
        ELSE
          diff_cleanupSemanticScan_(
              [st EXCEPT !.length_insertions2 = li2,
                         !.length_deletions2 = ld2,
                         !.pointer = @ + 1])

\* The last while loop of diff_cleanupSemantic: find any overlaps between
\* deletions and insertions. Only extract an overlap if it is as big as the
\* edit ahead or behind it.
RECURSIVE diff_cleanupSemanticOverlap_(_, _)
diff_cleanupSemanticOverlap_(ds, pointer) ==
    IF ~(pointer < Len(ds)) THEN ds
    ELSE IF ds[pointer].op = DIFF_DELETE /\ ds[pointer + 1].op = DIFF_INSERT THEN
      LET deletion == ds[pointer].text
          insertion == ds[pointer + 1].text
          overlap_length1 == diff_commonOverlap_(deletion, insertion)
          overlap_length2 == diff_commonOverlap_(insertion, deletion)
      IN
      IF overlap_length1 >= overlap_length2 THEN
          IF overlap_length1 * 2 >= Len(deletion) \/ overlap_length1 * 2 >= Len(insertion)
          THEN \* Overlap found. Insert an equality and trim the surrounding edits.
               LET d1 == splice(ds, pointer, 0,
                                <<Diff(DIFF_EQUAL, substring(insertion, 0, overlap_length1))>>)
                   d2 == [d1 EXCEPT
                            ![pointer].text =
                                substring(deletion, 0, Len(deletion) - overlap_length1),
                            ![pointer + 2].text =
                                substring(insertion, overlap_length1, Len(insertion))]
               IN  diff_cleanupSemanticOverlap_(d2, pointer + 3)
          ELSE diff_cleanupSemanticOverlap_(ds, pointer + 2)
      ELSE
          IF overlap_length2 * 2 >= Len(deletion) \/ overlap_length2 * 2 >= Len(insertion)
          THEN \* Reverse overlap found. Insert an equality and swap and trim
               \* the surrounding edits.
               LET d1 == splice(ds, pointer, 0,
                                <<Diff(DIFF_EQUAL, substring(deletion, 0, overlap_length2))>>)
                   d2 == [d1 EXCEPT
                            ![pointer] = Diff(DIFF_INSERT,
                                substring(insertion, 0, Len(insertion) - overlap_length2)),
                            ![pointer + 2] = Diff(DIFF_DELETE,
                                substring(deletion, overlap_length2, Len(deletion)))]
               IN  diff_cleanupSemanticOverlap_(d2, pointer + 3)
          ELSE diff_cleanupSemanticOverlap_(ds, pointer + 2)
    ELSE diff_cleanupSemanticOverlap_(ds, pointer + 1)

\* Reduce the number of edits by eliminating semantically trivial equalities.
diff_cleanupSemantic(ds) ==
    LET scanned == diff_cleanupSemanticScan_(
                       [diffs |-> ds, changes |-> FALSE,
                        equalities |-> [i \in {} |-> 0], equalitiesLength |-> 0,
                        lastEquality |-> <<>>, pointer |-> 0,
                        length_insertions1 |-> 0, length_deletions1 |-> 0,
                        length_insertions2 |-> 0, length_deletions2 |-> 0])
        \* Normalize the diff.
        normalized == IF scanned[2] THEN diff_cleanupMerge(scanned[1]) ELSE scanned[1]
    IN  diff_cleanupSemanticOverlap_(diff_cleanupSemanticLossless(normalized), 1)

----------------------------------------------------------------------------
(* Markup literals, as code units *)

\* '&amp;'
AMP ==
    <<38, 97, 109, 112, 59>>

\* '&lt;'
LT ==
    <<38, 108, 116, 59>>

\* '&gt;'
GT ==
    <<38, 103, 116, 59>>

\* '&para;<br>'
PARA ==
    <<38, 112, 97, 114, 97, 59, 60, 98, 114, 62>>

\* '<ins style="background:#e6ffe6;">'
INS_OPEN ==
    <<60, 105, 110, 115, 32, 115, 116, 121, 108, 101, 61, 34, 98, 97, 99, 107, 103, 114,
       111, 117, 110, 100, 58, 35, 101, 54, 102, 102, 101, 54, 59, 34, 62>>

\* '</ins>'
INS_CLOSE ==
    <<60, 47, 105, 110, 115, 62>>

\* '<del style="background:#ffe6e6;">'
DEL_OPEN ==
    <<60, 100, 101, 108, 32, 115, 116, 121, 108, 101, 61, 34, 98, 97, 99, 107, 103, 114,
       111, 117, 110, 100, 58, 35, 102, 102, 101, 54, 101, 54, 59, 34, 62>>

\* '</del>'
DEL_CLOSE ==
    <<60, 47, 100, 101, 108, 62>>

\* '<span>'
SPAN_OPEN ==
    <<60, 115, 112, 97, 110, 62>>

\* '</span>'
SPAN_CLOSE ==
    <<60, 47, 115, 112, 97, 110, 62>>

\* '<span>\u6c92\u6709\u5dee\u7570</span>'
NO_DIFFERENCE ==
    <<60, 115, 112, 97, 110, 62, 27794, 26377, 24046, 30064, 60, 47, 115, 112, 97, 110,
       62>>

\* data.replace(/&/g, '&amp;').replace(/</g, '&lt;').replace(/>/g, '&gt;')
\*     .replace(/\n/g, '&para;<br>'), where each pass replaces single code
\* units and none of the replacements contains a later pass's pattern.
RECURSIVE diff_prettyHtmlEscape_(_)
diff_prettyHtmlEscape_(data) ==
    IF data = <<>> THEN <<>>
    ELSE (CASE Head(data) = 38 -> AMP
            [] Head(data) = 60 -> LT
            [] Head(data) = 62 -> GT
            [] Head(data) = 10 -> PARA
            [] OTHER -> <<Head(data)>>)
         \o diff_prettyHtmlEscape_(Tail(data))

\* Convert a diff array into a pretty HTML report.
RECURSIVE diff_prettyHtml(_)
diff_prettyHtml(ds) ==
    IF ds = <<>> THEN <<>>
    ELSE LET text == diff_prettyHtmlEscape_(Head(ds).text)
             html == CASE Head(ds).op = DIFF_INSERT -> INS_OPEN \o text \o INS_CLOSE
                       [] Head(ds).op = DIFF_DELETE -> DEL_OPEN \o text \o DEL_CLOSE
                       [] Head(ds).op = DIFF_EQUAL -> SPAN_OPEN \o text \o SPAN_CLOSE
         IN  html \o diff_prettyHtml(Tail(ds))

----------------------------------------------------------------------------
(* OCRComparisonApp: the diff pipeline *)

\* Line 167: html || '<span>...</span>'. The empty string is false.
orNoDifference(html) == IF html # <<>> THEN html ELSE NO_DIFFERENCE

\* Lines 166-167 and what updateDiff leaves behind: the input values a and b
\* as they were, the texts it compared, the diff and the markup displayed.
updateDiffResult(a, b, localA, localB, cleaned) ==
    [textA |-> a, textB |-> b,
     normA |-> localA, normB |-> localB, diffs |-> cleaned,
     diffOutput |-> orNoDifference(diff_prettyHtml(cleaned))]

\* updateDiff with line 158 missing: whitespace is removed from textA only.
updateDiffLine158Missing(a, b, ws, sym) ==
    LET localA == normalize(a, ws, sym)
        localB == normalize(b, FALSE, sym)
    IN  updateDiffResult(a, b, localA, localB,
                         diff_cleanupSemantic(diff_main(localA, localB)))

\* updateDiff with line 162 missing: symbols are removed from textA only.
updateDiffLine162Missing(a, b, ws, sym) ==
    LET localA == normalize(a, ws, sym)
        localB == normalize(b, ws, FALSE)
    IN  updateDiffResult(a, b, localA, localB,
                         diff_cleanupSemantic(diff_main(localA, localB)))

\* updateDiff normalizing the input values in place instead of local copies.
updateDiffInPlace(a, b, ws, sym) ==
    LET localA == normalize(a, ws, sym)
        localB == normalize(b, ws, sym)
    IN  updateDiffResult(localA, localB, localA, localB,
                         diff_cleanupSemantic(diff_main(localA, localB)))

\* updateDiff with the arguments of diff_main exchanged.
updateDiffSwapped(a, b, ws, sym) ==
    LET localA == normalize(a, ws, sym)
        localB == normalize(b, ws, sym)
    IN  updateDiffResult(a, b, localA, localB,
                         diff_cleanupSemantic(diff_main(localB, localA)))

\* Lines 153-168: what one run of updateDiff leaves, the two input values
\* being a and b and the two checkboxes ws and sym when it is called. The
\* replacements are applied to the local copies; the input values are only
\* read.
updateDiff(a, b, ws, sym) ==
    LET localA == normalize(a, ws, sym)
        localB == normalize(b, ws, sym)
    IN  updateDiffResult(a, b, localA, localB,
                         diff_cleanupSemantic(diff_main(localA, localB)))

\* this.updateDiff() as the last statement of a handler that leaves the
\* inputs holding a, b, ws and sym.
CallUpdateDiff(a, b, ws, sym) ==
    \E r \in {updateDiff(a, b, ws, sym)} :
        /\ textA' = r.textA
        /\ textB' = r.textB
        /\ ignoreWhitespace' = ws
        /\ ignoreSymbols' = sym
        /\ normA' = r.normA
        /\ normB' = r.normB
        /\ diffs' = r.diffs
        /\ diffOutput' = r.diffOutput

----------------------------------------------------------------------------
(* OCRComparisonApp: files and messages *)

MSG_INVALID_FILE == "invalid image file"        \* line 84
MSG_INIT_FAILED == "OCR engine init failed"     \* line 116
MSG_NO_IMAGE == "select an image first"         \* line 131
MSG_OCR_FAILED == "OCR recognition failed"      \* line 146

\* 'image/'
IMAGE_PREFIX == <<105, 109, 97, 103, 101, 47>>

\* type.startsWith('image/')
startsWith(type, prefix) == substring(type, 0, Len(prefix)) = prefix

\* The files a user can select, drop or paste, with their MIME types:
\* 'image/png' and 'text/plain'.
Files == {"photo.png", "notes.txt"}

fileType(file) == IF file = "photo.png" THEN <<105, 109, 97, 103, 101, 47, 112, 110, 103>> ELSE <<116, 101, 120, 116, 47, 112, 108, 97, 105, 110>>

\* Clipboard contents: sequences of items, each with a type and the file
\* getAsFile() returns ("null" when it returns null).
ClipboardItem(type, file) == [type |-> type, file |-> file]

Clipboards ==
    { <<>>,
      <<ClipboardItem(<<116, 101, 120, 116, 47, 112, 108, 97, 105, 110>>, "null")>>,
      <<ClipboardItem(<<116, 101, 120, 116, 47, 112, 108, 97, 105, 110>>, "notes.txt")>>,
      <<ClipboardItem(<<116, 101, 120, 116, 47, 112, 108, 97, 105, 110>>, "null"), ClipboardItem(<<105, 109, 97, 103, 101, 47, 112, 110, 103>>, "photo.png")>>,
      <<ClipboardItem(<<105, 109, 97, 103, 101, 47, 112, 110, 103>>, "null"), ClipboardItem(<<105, 109, 97, 103, 101, 47, 112, 110, 103>>, "photo.png")>> }

----------------------------------------------------------------------------
(* OCRComparisonApp: handlers *)

\* handleFile with line 82 after the if statement: the button is enabled for
\* every file.
handleFileAlwaysEnables(file) ==
    IF startsWith(fileType(file), IMAGE_PREFIX) THEN
        /\ currentImage' = file
        /\ reading' = reading \cup {file}
        /\ runOcrBtnDisabled' = FALSE
        /\ alerts' = <<>>
        /\ UNCHANGED <<worker, initPc, recognizing, previewImg>>
    ELSE
        /\ runOcrBtnDisabled' = FALSE
        /\ alerts' = <<MSG_INVALID_FILE>>
        /\ UNCHANGED <<worker, initPc, currentImage, recognizing, reading, previewImg>>

\* handleFile with an else branch that also drops the current image.
handleFileDropsImage(file) ==
    IF startsWith(fileType(file), IMAGE_PREFIX) THEN
        /\ currentImage' = file
        /\ reading' = reading \cup {file}
        /\ runOcrBtnDisabled' = FALSE
        /\ alerts' = <<>>
        /\ UNCHANGED <<worker, initPc, recognizing, previewImg>>
    ELSE
        /\ currentImage' = "null"
        /\ runOcrBtnDisabled' = TRUE
        /\ alerts' = <<MSG_INVALID_FILE>>
        /\ UNCHANGED <<worker, initPc, recognizing, reading, previewImg>>

\* Lines 78-86. displayImage (lines 120-127) starts a FileReader whose onload
\* runs later (ReaderLoad).
handleFile(file) ==
    IF startsWith(fileType(file), IMAGE_PREFIX) THEN
        /\ currentImage' = file
        /\ reading' = reading \cup {file}
        /\ runOcrBtnDisabled' = FALSE
        /\ alerts' = <<>>
        /\ UNCHANGED <<worker, initPc, recognizing, previewImg>>
    ELSE
        /\ alerts' = <<MSG_INVALID_FILE>>
        /\ UNCHANGED <<ocrVars, reading, previewImg>>

\* Lines 35-39: 'change' on imageInput with a file chosen.
ImageInputChange ==
    \E file \in Files :
        /\ handleFile(file)
        /\ UNCHANGED pipelineVars

\* Lines 55-62: 'drop' on uploadArea with a file dropped.
UploadAreaDrop ==
    \E file \in Files :
        /\ handleFile(file)
        /\ UNCHANGED pipelineVars

\* The index of the first clipboard item whose type starts with 'image/', 0
\* when there is none.
firstImageItem(items) ==
    LET hits == {i \in 1..Len(items) : startsWith(items[i].type, IMAGE_PREFIX)}
    IN  IF hits = {} THEN 0 ELSE CHOOSE i \in hits : \A j \in hits : i <= j

\* Lines 64, 87-99: 'paste' on the document, the clipboard holding items.
handlePaste(items) ==
    /\ IF firstImageItem(items) # 0 /\ items[firstImageItem(items)].file # "null"
       THEN handleFile(items[firstImageItem(items)].file)
       ELSE /\ alerts' = <<>>
            /\ UNCHANGED <<ocrVars, reading, previewImg>>
    /\ UNCHANGED pipelineVars

\* Lines 122-125: onload of a FileReader started by displayImage.
ReaderLoad ==
    \E file \in reading :
        /\ reading' = reading \ {file}
        /\ previewImg' = file
        /\ alerts' = <<>>
        /\ UNCHANGED <<pipelineVars, ocrVars>>

\* Line 68: 'input' on textA, the user having changed its value to s.
TextAInput(s) ==
    /\ CallUpdateDiff(s, textB, ignoreWhitespace, ignoreSymbols)
    /\ alerts' = <<>>
    /\ UNCHANGED <<ocrVars, reading, previewImg>>

\* Line 69: 'input' on textB.
TextBInput(s) ==
    /\ CallUpdateDiff(textA, s, ignoreWhitespace, ignoreSymbols)
    /\ alerts' = <<>>
    /\ UNCHANGED <<ocrVars, reading, previewImg>>

\* Line 70: 'change' on the ignoreWhitespace checkbox.
IgnoreWhitespaceChange ==
    /\ CallUpdateDiff(textA, textB, ~ignoreWhitespace, ignoreSymbols)
    /\ alerts' = <<>>
    /\ UNCHANGED <<ocrVars, reading, previewImg>>

\* IgnoreSymbolsChange recomputing from the texts the previous run compared
\* (normA, normB) instead of the input values: state kept between invocations.
IgnoreSymbolsChangeIncremental ==
    /\ \E r \in {updateDiff(normA, normB, ignoreWhitespace, ~ignoreSymbols)} :
          /\ normA' = r.normA
          /\ normB' = r.normB
          /\ diffs' = r.diffs
          /\ diffOutput' = r.diffOutput
    /\ ignoreSymbols' = ~ignoreSymbols
    /\ alerts' = <<>>
    /\ UNCHANGED <<textA, textB, ignoreWhitespace, ocrVars, reading, previewImg>>

\* Line 71: 'change' on the ignoreSymbols checkbox.
IgnoreSymbolsChange ==
    /\ CallUpdateDiff(textA, textB, ignoreWhitespace, ~ignoreSymbols)
    /\ alerts' = <<>>
    /\ UNCHANGED <<ocrVars, reading, previewImg>>

\* Lines 129-140 and 144-150: runOCR up to its await, or to its end when it
\* does not reach the await. With this.worker still null, evaluating
\* this.worker.recognize throws inside the try: the catch reports it and the
\* finally re-enables the button, all before runOCR returns.
runOCR ==
    IF currentImage = "null" THEN
        /\ alerts' = <<MSG_NO_IMAGE>>
        /\ UNCHANGED <<ocrVars, reading, previewImg>>
    ELSE IF worker = "null" THEN
        /\ runOcrBtnDisabled' = FALSE
        /\ alerts' = <<MSG_OCR_FAILED>>
        /\ UNCHANGED <<worker, initPc, currentImage, recognizing, reading, previewImg>>
    ELSE
        /\ Len(recognizing) < MaxPending
        /\ runOcrBtnDisabled' = TRUE
        /\ recognizing' = Append(recognizing, currentImage)
        /\ alerts' = <<>>
        /\ UNCHANGED <<worker, initPc, currentImage, reading, previewImg>>

\* Line 67: 'click' on runOcrBtn; a disabled button receives no click.
RunOcrBtnClick ==
    /\ ~runOcrBtnDisabled
    /\ runOCR
    /\ UNCHANGED pipelineVars

\* Lines 72-75: 'change' on languageSelect.
LanguageSelectChange ==
    /\ IF currentImage # "null"
       THEN runOCR
       ELSE /\ alerts' = <<>>
            /\ UNCHANGED <<ocrVars, reading, previewImg>>
    /\ UNCHANGED pipelineVars

\* RecognizeFulfilled with line 142 missing: textA is written and the diff is
\* not recomputed.
RecognizeFulfilledLine142Missing(i, text) ==
    /\ i \in 1..Len(recognizing)
    /\ recognizing' = splice(recognizing, i - 1, 1, <<>>)
    /\ textA' = text
    /\ UNCHANGED <<textB, ignoreWhitespace, ignoreSymbols, normA, normB, diffs, diffOutput>>
    /\ runOcrBtnDisabled' = FALSE
    /\ alerts' = <<>>
    /\ UNCHANGED <<worker, initPc, currentImage, reading, previewImg>>

\* Lines 140-143 and 147-150: worker.recognize of the i-th suspended runOCR
\* fulfils with text.
RecognizeFulfilled(i, text) ==
    /\ i \in 1..Len(recognizing)
    /\ recognizing' = splice(recognizing, i - 1, 1, <<>>)
    /\ CallUpdateDiff(text, textB, ignoreWhitespace, ignoreSymbols)
    /\ runOcrBtnDisabled' = FALSE
    /\ alerts' = <<>>
    /\ UNCHANGED <<worker, initPc, currentImage, reading, previewImg>>

\* RecognizeRejected with a catch block that also clears the recognized text.
RecognizeRejectedClearsTextA(i) ==
    /\ i \in 1..Len(recognizing)
    /\ recognizing' = splice(recognizing, i - 1, 1, <<>>)
    /\ CallUpdateDiff(<<>>, textB, ignoreWhitespace, ignoreSymbols)
    /\ alerts' = <<MSG_OCR_FAILED>>
    /\ runOcrBtnDisabled' = FALSE
    /\ UNCHANGED <<worker, initPc, currentImage, reading, previewImg>>

\* RecognizeRejected without the finally block: the button stays as it is.
RecognizeRejectedNoFinally(i) ==
    /\ i \in 1..Len(recognizing)
    /\ recognizing' = splice(recognizing, i - 1, 1, <<>>)
    /\ alerts' = <<MSG_OCR_FAILED>>
    /\ UNCHANGED <<pipelineVars, worker, initPc, currentImage, runOcrBtnDisabled,
                   reading, previewImg>>

\* Lines 144-150: worker.recognize of the i-th suspended runOCR rejects.
RecognizeRejected(i) ==
    /\ i \in 1..Len(recognizing)
    /\ recognizing' = splice(recognizing, i - 1, 1, <<>>)
    /\ alerts' = <<MSG_OCR_FAILED>>
    /\ runOcrBtnDisabled' = FALSE
    /\ UNCHANGED <<pipelineVars, worker, initPc, currentImage, reading, previewImg>>

\* Lines 103-113: the await initializeTesseract is suspended at fulfils.
\* this.worker is assigned when createWorker fulfils.
TesseractStepFulfilled ==
    /\ initPc \in {"createWorker", "loadLanguage", "initialize"}
    /\ initPc' = CASE initPc = "createWorker" -> "loadLanguage"
                   [] initPc = "loadLanguage" -> "initialize"
                   [] initPc = "initialize" -> "done"
    /\ worker' = "worker"
    /\ alerts' = <<>>
    /\ UNCHANGED <<pipelineVars, currentImage, runOcrBtnDisabled, recognizing,
                   reading, previewImg>>

\* TesseractStepRejected with a catch block that starts initializeTesseract
\* again.
TesseractStepRejectedRetries ==
    /\ initPc \in {"createWorker", "loadLanguage", "initialize"}
    /\ initPc' = "createWorker"
    /\ alerts' = <<MSG_INIT_FAILED>>
    /\ UNCHANGED <<pipelineVars, worker, currentImage, runOcrBtnDisabled, recognizing,
                   reading, previewImg>>

\* Lines 114-117: the await initializeTesseract is suspended at rejects.
TesseractStepRejected ==
    /\ initPc \in {"createWorker", "loadLanguage", "initialize"}
    /\ initPc' = "failed"
    /\ alerts' = <<MSG_INIT_FAILED>>
    /\ UNCHANGED <<pipelineVars, worker, currentImage, runOcrBtnDisabled, recognizing,
                   reading, previewImg>>

----------------------------------------------------------------------------
(* Specifications *)

\* Lines 5-13: the state the constructor leaves, the page having loaded with
\* the text areas holding a and b and the checkboxes set to ws and sym:
\* worker and currentImage null, the button disabled (line 30),
\* initializeTesseract suspended at createWorker, updateDiff run once.
Constructed(a, b, ws, sym) ==
    \E r \in {updateDiff(a, b, ws, sym)} :
        /\ textA = a
        /\ textB = b
        /\ ignoreWhitespace = ws
        /\ ignoreSymbols = sym
        /\ normA = r.normA
        /\ normB = r.normB
        /\ diffs = r.diffs
        /\ diffOutput = r.diffOutput
        /\ worker = "null"
        /\ initPc = "createWorker"
        /\ currentImage = "null"
        /\ runOcrBtnDisabled = TRUE
        /\ recognizing = <<>>
        /\ reading = {}
        /\ previewImg = "none"
        /\ alerts = <<>>

\* Space and '!': a whitespace character and a symbol.
TextAlphabet == {32, 33}

\* The texts typed and recognized in Spec.
Texts == StringsUpTo(TextAlphabet, MaxTextLen)

\* The application: a page loaded with empty text areas and unchecked boxes,
\* then any sequence of events.
Init == Constructed(<<>>, <<>>, FALSE, FALSE)

Next ==
    \/ \E s \in Texts : TextAInput(s)
    \/ \E s \in Texts : TextBInput(s)
    \/ IgnoreWhitespaceChange
    \/ IgnoreSymbolsChange
    \/ ImageInputChange
    \/ UploadAreaDrop
    \/ \E items \in Clipboards : handlePaste(items)
    \/ ReaderLoad
    \/ RunOcrBtnClick
    \/ LanguageSelectChange
    \/ \E i \in 1..MaxPending, text \in Texts : RecognizeFulfilled(i, text)
    \/ \E i \in 1..MaxPending : RecognizeRejected(i)
    \/ TesseractStepFulfilled
    \/ TesseractStepRejected

Spec == Init /\ [][Next]_vars

\* Line 140: a promise returned by worker.recognize settles, rejected or
\* fulfilled.
RecognizeSettles ==
    \/ \E i \in 1..MaxPending : RecognizeRejected(i)
    \/ \E i \in 1..MaxPending, text \in Texts : RecognizeFulfilled(i, text)

\* The application, every pending recognition settling in the end; the user
\* and the initialization may stop at any point.
FairSpec == Spec /\ WF_vars(RecognizeSettles)

\* The pipeline as a function of its inputs: the page loads with any texts of
\* a bounded set in the text areas, and the checkboxes are toggled.
NextPipeline ==
    \/ IgnoreWhitespaceChange
    \/ IgnoreSymbolsChange

\* Tab, space, ideographic space; '!', '_', '0', 'a', e-acute; the first and
\* last code units of U+4E00-U+9FFF and the code units next to them.
NormAlphabet == {9, 32, 12288, 33, 95, 48, 97, 233, 19967, 19968, 40959, 40960}

NormTexts == StringsUpTo(NormAlphabet, MaxNormLen)

InitNormalize ==
    \E t \in NormTexts :
        \/ Constructed(t, <<>>, FALSE, FALSE)
        \/ Constructed(<<>>, t, FALSE, FALSE)

SpecNormalize == InitNormalize /\ [][NextPipeline]_vars

\* 'a', space and '!': a word character, a whitespace character and a symbol.
DiffAlphabet == {97, 32, 33}

\* The indicator's own words, U+6C92 U+6709 U+5DEE U+7570 (line 167).
IndicatorText == <<27794, 26377, 24046, 30064>>

\* The texts of the spec's examples: 'hello world', 'hello  world', 'abc', 'abd'.
ExampleTexts ==
    { <<104, 101, 108, 108, 111, 32, 119, 111, 114, 108, 100>>,
      <<104, 101, 108, 108, 111, 32, 32, 119, 111, 114, 108, 100>>,
      <<97, 98, 99>>, <<97, 98, 100>> }

\* 'abbaa' and 'bbbaaaaab': a pair whose diff has a one-character insertion
\* between two equalities, followed by another insertion.
RepetitiveTexts ==
    { <<97, 98, 98, 97, 97>>, <<98, 98, 98, 97, 97, 97, 97, 97, 98>> }

\* A line feed, and '<&>': the characters diff_prettyHtml replaces.
MarkupTexts ==
    { <<10>>, <<60, 38, 62>> }

DiffTexts ==
    StringsUpTo(DiffAlphabet, MaxDiffLen) \cup ExampleTexts \cup {IndicatorText}
      \cup RepetitiveTexts \cup MarkupTexts

InitDiff ==
    \E a \in DiffTexts, b \in DiffTexts :
        Constructed(a, b, FALSE, FALSE)

SpecDiff == InitDiff /\ [][NextPipeline]_vars

----------------------------------------------------------------------------
(* Properties *)

\* The concatenated text of the segments of ds whose kind is in ops.
RECURSIVE TextOf(_, _)
TextOf(ds, ops) ==
    IF ds = <<>> THEN <<>>
    ELSE (IF Head(ds).op \in ops THEN Head(ds).text ELSE <<>>) \o TextOf(Tail(ds), ops)

Kinds(ds) == {ds[i].op : i \in 1..Len(ds)}

\* C1: the Equal and Deleted segments updateDiff produced, concatenated in
\* order, are the normalized textA, and the Equal and Inserted segments are the
\* normalized textB, for every pair of texts and every combination of options.
C1_SegmentsReconstructTexts ==
    /\ TextOf(diffs, {DIFF_EQUAL, DIFF_DELETE})
         = normalize(textA, ignoreWhitespace, ignoreSymbols)
    /\ TextOf(diffs, {DIFF_EQUAL, DIFF_INSERT})
         = normalize(textB, ignoreWhitespace, ignoreSymbols)

\* A diff with all three kinds of segment, of texts that whitespace removal
\* changed.
C1_Witness ==
    /\ ignoreWhitespace
    /\ normalize(textA, ignoreWhitespace, ignoreSymbols) # textA
    /\ normalize(textB, ignoreWhitespace, ignoreSymbols) # textB
    /\ Kinds(diffs) = {DIFF_EQUAL, DIFF_DELETE, DIFF_INSERT}

\* The spec's compare: the diff of the two normalized texts.
compare(a, b, ws, sym) ==
    diff_cleanupSemantic(diff_main(normalize(a, ws, sym), normalize(b, ws, sym)))

\* The spec's render, with the indicator for the empty sequence.
render(ds) == orNoDifference(diff_prettyHtml(ds))

\* C2: in every state reached after the constructor and any sequence of events,
\* diffOutput is the rendering of the diff of the current textA and textB
\* under the current options: no stale diff is displayed.
C2_NoStaleDiff ==
    diffOutput = render(compare(textA, textB, ignoreWhitespace, ignoreSymbols))

\* A recognition has completed or failed (the button is enabled again with a
\* worker and an image) and the displayed diff is one of differing texts under
\* an enabled option.
C2_Witness ==
    /\ worker = "worker"
    /\ currentImage # "null"
    /\ ~runOcrBtnDisabled
    /\ textA # <<>>
    /\ textA # textB
    /\ ignoreWhitespace
    /\ diffOutput # NO_DIFFERENCE

\* C3: a change of either checkbox leaves textA and textB as they were, and
\* changing the checkbox back would give the diff output displayed before the
\* change: the texts are not replaced by their normalized copies.
C3_ToggleRecomputesFromSource ==
    [][((ignoreWhitespace' # ignoreWhitespace \/ ignoreSymbols' # ignoreSymbols)
          /\ (IgnoreWhitespaceChange \/ IgnoreSymbolsChange))
          => /\ textA' = textA
             /\ textB' = textB
             /\ updateDiff(textA', textB', ignoreWhitespace, ignoreSymbols).diffOutput
                  = diffOutput
             /\ updateDiff(textA', textB', ignoreWhitespace, ignoreSymbols).textA = textA
             /\ updateDiff(textA', textB', ignoreWhitespace, ignoreSymbols).textB = textB]_vars

\* An option is enabled, the texts are not what updateDiff compared, and the
\* output differs from the one the disabled option gives.
C3_Witness ==
    /\ ignoreWhitespace
    /\ ~ignoreSymbols
    /\ normA # textA
    /\ normB # textB
    /\ diffOutput # updateDiff(textA, textB, FALSE, FALSE).diffOutput

NotWhiteSpace(c) == ~IsWhiteSpace(c)

WordOrCJK(c) == IsWordChar(c) \/ IsCJK(c)

Chars(t) == {t[i] : i \in 1..Len(t)}

\* C4: with ignoreWhitespace alone the texts compared are the inputs without
\* their whitespace characters, the others kept in order and nothing added;
\* with no option they are the inputs; the empty text stays empty.
C4_WhitespaceRemoved ==
    /\ (ignoreWhitespace /\ ~ignoreSymbols)
          => /\ normA = SelectSeq(textA, NotWhiteSpace)
             /\ normB = SelectSeq(textB, NotWhiteSpace)
             /\ \A c \in Chars(normA) \cup Chars(normB) : ~IsWhiteSpace(c)
    /\ (~ignoreWhitespace /\ ~ignoreSymbols) => (normA = textA /\ normB = textB)
    /\ (textA = <<>>) => (normA = <<>>)
    /\ (textB = <<>>) => (normB = <<>>)

\* A text with whitespace between two other characters, whitespace ignored.
C4_Witness ==
    /\ ignoreWhitespace
    /\ ~ignoreSymbols
    /\ Len(textA) = 3
    /\ ~IsWhiteSpace(textA[1])
    /\ IsWhiteSpace(textA[2])
    /\ ~IsWhiteSpace(textA[3])
    /\ Len(normA) = 2

\* C5: with ignoreSymbols the texts compared are the inputs restricted to the
\* characters of [A-Za-z0-9_] and U+4E00..U+9FFF, in order.
C5_SymbolsRemoved ==
    ignoreSymbols
       => /\ normA = SelectSeq(textA, WordOrCJK)
          /\ normB = SelectSeq(textB, WordOrCJK)
          /\ \A c \in Chars(normA) \cup Chars(normB) : IsWordChar(c) \/ IsCJK(c)

\* An underscore, an ideograph and a character of neither class, symbols
\* ignored: the first two survive.
C5_Witness ==
    /\ ignoreSymbols
    /\ Len(textB) = 3
    /\ 95 \in Chars(textB)
    /\ \E c \in Chars(textB) : IsCJK(c)
    /\ \E c \in Chars(textB) : ~WordOrCJK(c)
    /\ Len(normB) = 2

\* C6: with both options the texts compared are those symbol removal alone
\* gives (whitespace removal first, symbol removal second), and normalizing a
\* normalized text again changes nothing, whatever the options.
C6_BothOptionsAndIdempotent ==
    /\ (ignoreWhitespace /\ ignoreSymbols)
          => /\ normA = RemoveSymbols(RemoveWhitespace(textA))
             /\ normB = RemoveSymbols(RemoveWhitespace(textB))
             /\ normA = normalize(textA, FALSE, TRUE)
             /\ normB = normalize(textB, FALSE, TRUE)
    /\ normalize(normA, ignoreWhitespace, ignoreSymbols) = normA
    /\ normalize(normB, ignoreWhitespace, ignoreSymbols) = normB

\* Both options, a text with a whitespace character, a symbol and a character
\* that is kept.
C6_Witness ==
    /\ ignoreWhitespace
    /\ ignoreSymbols
    /\ \E c \in Chars(textA) : IsWhiteSpace(c)
    /\ \E c \in Chars(textA) : ~IsWhiteSpace(c) /\ ~WordOrCJK(c)
    /\ Len(normA) = 1

\* C7: when the two normalized texts are equal the diff is one Equal segment
\* holding that text, or no segment when it is empty.
C7_EqualTextsOneEqualSegment ==
    normalize(textA, ignoreWhitespace, ignoreSymbols)
      = normalize(textB, ignoreWhitespace, ignoreSymbols)
       => diffs = IF normalize(textA, ignoreWhitespace, ignoreSymbols) = <<>> THEN <<>>
                  ELSE <<Diff(DIFF_EQUAL, normalize(textA, ignoreWhitespace, ignoreSymbols))>>

\* Texts that differ only in symbols, symbols ignored.
C7_Witness ==
    /\ textA # textB
    /\ ignoreSymbols
    /\ ~ignoreWhitespace
    /\ Len(diffs) = 1
    /\ diffs[1].op = DIFF_EQUAL
    /\ diffs[1].text # textA
    /\ diffs[1].text # textB

\* C8: two empty normalized texts give the empty sequence and the indicator,
\* and no non-empty sequence is displayed as the indicator.
C8_IndicatorDistinct ==
    /\ (normA = <<>> /\ normB = <<>>) => (diffs = <<>> /\ diffOutput = NO_DIFFERENCE)
    /\ (diffs # <<>>) => (diffOutput # NO_DIFFERENCE)

\* C9: a step in which a suspended recognition rejects, or in which runOCR
\* finds the worker still null, shows the recognition error and leaves textA,
\* textB, both options and diffOutput as they were; so does the step that
\* starts a recognition.
C9_FailedRecognitionLeavesPipeline ==
    [][/\ ((\E i \in 1..MaxPending : RecognizeRejected(i))
             \/ (worker = "null" /\ currentImage # "null"
                   /\ (RunOcrBtnClick \/ LanguageSelectChange)))
          => /\ alerts' = <<MSG_OCR_FAILED>>
             /\ UNCHANGED <<textA, textB, ignoreWhitespace, ignoreSymbols, diffOutput>>
             /\ updateDiff(textA', textB', ignoreWhitespace', ignoreSymbols').diffOutput
                  = diffOutput
       /\ (RunOcrBtnClick \/ LanguageSelectChange)
          => UNCHANGED <<textA, textB, ignoreWhitespace, ignoreSymbols, diffOutput>>]_vars

\* A recognition has just failed while a diff of non-empty texts is displayed.
C9_Witness ==
    /\ alerts = <<MSG_OCR_FAILED>>
    /\ worker = "worker"
    /\ textA # <<>>
    /\ textB # <<>>
    /\ diffOutput # NO_DIFFERENCE

\* C10: updateDiff leaves a non-empty diffOutput for every pair of texts, and
\* when the normalized textA is empty and the normalized textB is not, every
\* segment is Inserted and their text is the normalized textB.
C10_EmptyTextATolerated ==
    /\ diffOutput # <<>>
    /\ (normalize(textA, ignoreWhitespace, ignoreSymbols) = <<>>
          /\ normalize(textB, ignoreWhitespace, ignoreSymbols) # <<>>)
       => /\ Kinds(diffs) = {DIFF_INSERT}
          /\ TextOf(diffs, {DIFF_INSERT}) = normalize(textB, ignoreWhitespace, ignoreSymbols)

\* A textA that is all whitespace and symbols, both ignored, against a textB
\* that is not.
C10_Witness ==
    /\ textA # <<>>
    /\ normalize(textA, ignoreWhitespace, ignoreSymbols) = <<>>
    /\ normalize(textB, ignoreWhitespace, ignoreSymbols) # <<>>
    /\ Kinds(diffs) = {DIFF_INSERT}

\* C11: whatever edits, toggles, file events and recognitions led to the
\* current textA, textB and options, the texts compared, the segments and the
\* diffOutput are those of an application just constructed on a page holding
\* these values: the history leaves no trace in what is displayed.
C11_OutputDependsOnInputsOnly ==
    \E fresh \in {updateDiff(textA, textB, ignoreWhitespace, ignoreSymbols)} :
        /\ diffOutput = fresh.diffOutput
        /\ diffs = fresh.diffs
        /\ normA = fresh.normA
        /\ normB = fresh.normB

\* Initialization has finished, an image is previewed, a recognition is
\* pending, and a diff of differing texts is displayed with whitespace
\* ignored.
C11_Witness ==
    /\ initPc = "done"
    /\ previewImg # "none"
    /\ recognizing # <<>>
    /\ ignoreWhitespace
    /\ ~ignoreSymbols
    /\ textA # <<>>
    /\ textB # <<>>
    /\ normA # normB
    /\ diffOutput # NO_DIFFERENCE

\* C12: in the segment sequence updateDiff renders, no two consecutive
\* segments have the same kind and no segment has empty text.
C12_AdjacentSegmentsMerged ==
    /\ \A i \in 1..Len(diffs) : diffs[i].text # <<>>
    /\ \A i \in 1..(Len(diffs) - 1) : diffs[i].op # diffs[i + 1].op

\* The markers and character references diff_prettyHtml writes.
Markers == {INS_OPEN, INS_CLOSE, DEL_OPEN, DEL_CLOSE, SPAN_OPEN, SPAN_CLOSE}

\* The text a reader of the markup html sees once the markers are stripped:
\* the character references stand for their characters, '&para;' for the
\* pilcrow U+00B6 and '<br>' for a line break.
RECURSIVE StripMarkers(_)
StripMarkers(html) ==
    IF html = <<>> THEN <<>>
    ELSE IF \E m \in Markers : startsWith(html, m)
    THEN StripMarkers(substring(html, Len(CHOOSE m \in Markers : startsWith(html, m)), Len(html)))
    ELSE IF startsWith(html, PARA) THEN <<182, 10>> \o StripMarkers(substring(html, Len(PARA), Len(html)))
    ELSE IF startsWith(html, AMP) THEN <<38>> \o StripMarkers(substring(html, Len(AMP), Len(html)))
    ELSE IF startsWith(html, LT) THEN <<60>> \o StripMarkers(substring(html, Len(LT), Len(html)))
    ELSE IF startsWith(html, GT) THEN <<62>> \o StripMarkers(substring(html, Len(GT), Len(html)))
    ELSE <<Head(html)>> \o StripMarkers(Tail(html))

\* The number of times the marker m occurs in html.
RECURSIVE Occurrences(_, _)
Occurrences(html, m) ==
    IF Len(html) < Len(m) THEN 0
    ELSE (IF startsWith(html, m) THEN 1 ELSE 0) + Occurrences(Tail(html), m)

\* C13: the rendering of a non-empty segment sequence has one span per
\* segment, in sequence order, and with the markers stripped it is the segment
\* texts, character for character, whatever characters they contain.
C13_RenderKeepsSegmentText ==
    diffs # <<>>
       => /\ StripMarkers(diffOutput) = TextOf(diffs, {DIFF_EQUAL, DIFF_INSERT, DIFF_DELETE})
          /\ Occurrences(diffOutput, INS_CLOSE) + Occurrences(diffOutput, DEL_CLOSE)
                + Occurrences(diffOutput, SPAN_CLOSE) = Len(diffs)

\* A file that handleFile rejects.
NotImage(file) == ~startsWith(fileType(file), IMAGE_PREFIX)

\* The clipboard holds a file whose type does not start with 'image/'.
HoldsOtherFile(items) ==
    \E i \in 1..Len(items) :
        items[i].file # "null" /\ ~startsWith(items[i].type, IMAGE_PREFIX)

\* A failed initialization, a failed recognition and a selected or dropped
\* file that is not an image each show one message and start nothing again;
\* a recognition starts only in a click or a language change.
FailureNotifiedOnce ==
    /\ TesseractStepRejected
          => /\ alerts' = <<MSG_INIT_FAILED>>
             /\ initPc' = "failed"
             /\ recognizing' = recognizing
    /\ (initPc = "failed") => (initPc' = "failed" /\ worker' = worker)
    /\ (\E i \in 1..MaxPending : RecognizeRejected(i))
          => /\ alerts' = <<MSG_OCR_FAILED>>
             /\ Len(recognizing') = Len(recognizing) - 1
    /\ (worker = "null" /\ currentImage # "null" /\ (RunOcrBtnClick \/ LanguageSelectChange))
          => /\ alerts' = <<MSG_OCR_FAILED>>
             /\ recognizing' = recognizing
    /\ (\E file \in Files : NotImage(file) /\ handleFile(file) /\ UNCHANGED pipelineVars)
          => /\ alerts' = <<MSG_INVALID_FILE>>
             /\ UNCHANGED <<recognizing, reading, initPc>>
    /\ (Len(recognizing') > Len(recognizing)) => (RunOcrBtnClick \/ LanguageSelectChange)
    /\ Len(alerts') <= 1

\* C14 as stated: every failure, a pasted file that is not an image included,
\* shows exactly one message and nothing is retried.
C14_EveryFailureNotifiedOnce ==
    [][/\ FailureNotifiedOnce
       /\ (\E items \in Clipboards :
              HoldsOtherFile(items) /\ firstImageItem(items) = 0 /\ handlePaste(items))
          => Len(alerts') = 1]_vars

\* C14 amended: as stated for a failed initialization, a failed recognition
\* and a selected or dropped file that is not an image; a paste without an
\* image item, a pasted file of another type included, shows no message and
\* changes nothing.
C14_FailureNotifiedOncePasteSilent ==
    [][/\ FailureNotifiedOnce
       /\ (\E items \in Clipboards : firstImageItem(items) = 0 /\ handlePaste(items))
          => /\ alerts' = <<>>
             /\ UNCHANGED <<pipelineVars, ocrVars, reading, previewImg>>]_vars

\* Initialization has just failed after the worker was created, while a
\* recognition the user started is pending.
C14_Witness ==
    /\ initPc = "failed"
    /\ alerts = <<MSG_INIT_FAILED>>
    /\ worker = "worker"
    /\ recognizing # <<>>

\* C15: while a recognition started by runOCR has not settled the run-OCR
\* button is disabled, and a disabled button with an image selected becomes
\* enabled only in the step in which a recognition completes or fails.
C15_PendingRecognitionDisablesButton ==
    [][/\ (recognizing' # <<>>) => runOcrBtnDisabled'
       /\ (currentImage # "null" /\ runOcrBtnDisabled /\ ~runOcrBtnDisabled')
          => Len(recognizing') < Len(recognizing)]_vars

\* C16: at most one runOCR is suspended at its await at any time, and no step
\* enters runOCR while one is suspended.
C16_OneRecognitionInFlight ==
    [][/\ Len(recognizing') <= 1
       /\ (recognizing # <<>>) => (Len(recognizing') <= Len(recognizing))]_vars

\* C17: a run-OCR button that runOCR disabled (an image is selected) is
\* enabled again later, every pending recognition settling; and a runOCR that
\* finds the worker still null leaves the button enabled in the same step.
C17_ButtonEnabledAgain ==
    /\ (currentImage # "null" /\ runOcrBtnDisabled) ~> ~runOcrBtnDisabled
    /\ [][(worker = "null" /\ currentImage # "null"
              /\ (RunOcrBtnClick \/ LanguageSelectChange))
             => ~runOcrBtnDisabled']_vars

\* A recognition is pending with the button disabled, started on a worker
\* whose initialization has failed.
C17_Witness ==
    /\ runOcrBtnDisabled
    /\ recognizing # <<>>
    /\ initPc = "failed"

\* C18: in every reachable state an enabled run-OCR button means an image is
\* selected; an image once selected stays selected; and the message of
\* runOCR's no-image branch is never shown.
C18_EnabledButtonHasImage ==
    /\ []((~runOcrBtnDisabled) => (currentImage # "null"))
    /\ [][(currentImage # "null") => (currentImage' # "null")]_vars
    /\ [](alerts # <<MSG_NO_IMAGE>>)

\* The button is enabled during a pending recognition, initialization having
\* finished: handleFile enabled it.
C18_Witness ==
    /\ ~runOcrBtnDisabled
    /\ currentImage # "null"
    /\ recognizing # <<>>
    /\ initPc = "done"

\* C19: a step in which a file whose type does not start with 'image/' is
\* selected or dropped shows the invalid-file message and leaves currentImage,
\* the preview and its pending reader, the button, the pending recognitions,
\* the texts, the options and diffOutput as they were.
C19_InvalidFileChangesNothing ==
    [][(\E file \in Files : NotImage(file) /\ handleFile(file) /\ UNCHANGED pipelineVars)
          => /\ alerts' = <<MSG_INVALID_FILE>>
             /\ UNCHANGED <<currentImage, previewImg, reading, runOcrBtnDisabled>>
             /\ UNCHANGED <<recognizing, worker, initPc>>
             /\ UNCHANGED <<textA, textB, ignoreWhitespace, ignoreSymbols, diffOutput>>]_vars

\* The invalid-file message is shown while an accepted image is current and
\* previewed, the button is enabled and a diff is displayed.
C19_Witness ==
    /\ alerts = <<MSG_INVALID_FILE>>
    /\ currentImage # "null"
    /\ previewImg # "none"
    /\ ~runOcrBtnDisabled
    /\ diffOutput # NO_DIFFERENCE

====
